---- MODULE Spec2Model ----
(***************************************************************************)
(* Model of src/ai2.py: the news filter/ranker (StockNewsProcessor), the   *)
(* prompt formatter and orchestrator (StockNewsAnalyzer) and the           *)
(* POST /process handler (process_input).                                  *)
(*                                                                         *)
(* Text that the code computes on (ticker symbols, numeric strings,        *)
(* timestamps, summaries) is a sequence of one-character strings, so that  *)
(* str.upper, str.strip, float() and slicing are computed, not assumed.    *)
(* Text that the code only passes through or uses as a dictionary key      *)
(* (titles, labels, source names) is a TLA+ string.  A value that may be   *)
(* absent (dict.get returning None) is a sequence of length 0 or 1.        *)
(* Numbers parsed by float() are integers counted in thousandths.          *)
(***************************************************************************)
EXTENDS Integers, Sequences, FiniteSets, TLC

\* ------------------------------------------------------------------ bounds
MaxFeed == 3        \* longest feed handed to process_news_items under SpecFilter
NumRequests == 2    \* concurrently handled POST /process requests

\* ------------------------------------------------------- program constants
DefaultMinRelevance == 500     \* min_relevance: float = 0.5, in thousandths
DefaultReliability == 2        \* self.source_reliability.get(source, 2)
SummaryLimit == 200            \* item['summary'][:200]

\* ------------------------------------------------------------ optional values
None == <<>>
Some(v) == <<v>>
IsNone(o) == o = <<>>
Val(o) == o[1]

\* Python's exceptions, as results: a call either returns a value or raises.
Return(v) == [ok |-> TRUE, v |-> v]
Raise(e) == [ok |-> FALSE, err |-> e]

\* --------------------------------------------------------------- str methods
UpperChar(c) ==
    CASE c = "a" -> "A" [] c = "b" -> "B" [] c = "c" -> "C" [] c = "d" -> "D"
      [] OTHER -> c

\* str.upper()
Upper(s) == [i \in DOMAIN s |-> UpperChar(s[i])]

RECURSIVE LStrip(_)
LStrip(s) == IF s # <<>> /\ s[1] = " " THEN LStrip(Tail(s)) ELSE s

RECURSIVE RStrip(_)
RStrip(s) ==
    IF s # <<>> /\ s[Len(s)] = " " THEN RStrip(SubSeq(s, 1, Len(s) - 1)) ELSE s

\* str.strip()
Strip(s) == RStrip(LStrip(s))

\* s[:n]
Slice(s, n) == SubSeq(s, 1, IF Len(s) < n THEN Len(s) ELSE n)

\* ------------------------------------------------------------------- float()
DigitChars == <<"0", "1", "2", "3", "4", "5", "6", "7", "8", "9">>
IsDigit(c) == \E d \in 1..10 : DigitChars[d] = c
DigitVal(c) == (CHOOSE d \in 1..10 : DigitChars[d] = c) - 1
AllDigits(s) == \A i \in DOMAIN s : IsDigit(s[i])

RECURSIVE NatOf(_)
NatOf(s) ==
    IF s = <<>> THEN 0
    ELSE 10 * NatOf(SubSeq(s, 1, Len(s) - 1)) + DigitVal(s[Len(s)])

\* The first three fraction digits, padded with zeros: thousandths.
Thousandths(fp) ==
    NatOf(SubSeq(fp \o <<"0", "0", "0">>, 1, 3))

\* float(s) for a string s: decimal literals [-]digits[.digits] parse to a
\* number (in thousandths); any other text raises ValueError.
FloatOfStr(s) ==
    LET neg == s # <<>> /\ s[1] = "-"
        body == IF neg THEN Tail(s) ELSE s
        dots == {i \in DOMAIN body : body[i] = "."}
        dot == IF dots = {} THEN Len(body) + 1 ELSE CHOOSE i \in dots : TRUE
        ip == SubSeq(body, 1, dot - 1)
        fp == SubSeq(body, dot + 1, Len(body))
        mag == 1000 * NatOf(ip) + Thousandths(fp)
    IN  IF /\ Cardinality(dots) <= 1
           /\ AllDigits(ip) /\ AllDigits(fp)
           /\ Len(ip) + Len(fp) >= 1
        THEN Return(IF neg THEN 0 - mag ELSE mag)
        ELSE Raise("ValueError")

\* float(x) for an optional string: float(None) raises TypeError.
FloatOf(o) == IF IsNone(o) THEN Raise("TypeError") ELSE FloatOfStr(Val(o))

\* f"{v:.2f}" and f"{v:.3f}" of a parsed number, as the number of hundredths
\* (rounded) and of thousandths.
Fmt2(v) == IF v >= 0 THEN (v + 5) \div 10 ELSE 0 - ((0 - v + 5) \div 10)
Fmt3(v) == v

\* ------------------------------------------------------ datetime.strptime
\* datetime.strptime(time_str, '%Y%m%d%H%M%S').strftime('%Y-%m-%d %H:%M:%S'):
\* a 14-digit stamp with fields in range is re-punctuated; anything else
\* raises ValueError, which lines 58-59 turn into the raw string.
Field(s, a, b) == NatOf(SubSeq(s, a, b))
StampParses(s) ==
    /\ Len(s) = 14
    /\ AllDigits(s)
    /\ Field(s, 1, 4) >= 1
    /\ Field(s, 5, 6) \in 1..12
    /\ Field(s, 7, 8) \in 1..31
    /\ Field(s, 9, 10) \in 0..23
    /\ Field(s, 11, 12) \in 0..59
    /\ Field(s, 13, 14) \in 0..61
FormatDate(s) ==
    IF StampParses(s)
    THEN SubSeq(s, 1, 4) \o <<"-">> \o SubSeq(s, 5, 6) \o <<"-">>
         \o SubSeq(s, 7, 8) \o <<" ">> \o SubSeq(s, 9, 10) \o <<":">>
         \o SubSeq(s, 11, 12) \o <<":">> \o SubSeq(s, 13, 14)
    ELSE s

\* ------------------------------------------------- Source Reliability Table
source_reliability ==
    [s \in {"Reuters", "Bloomberg", "CNBC", "Financial Times",
            "Wall Street Journal", "Benzinga", "Motley Fool", "Zacks"} |->
        CASE s \in {"Reuters", "Bloomberg", "Financial Times",
                    "Wall Street Journal"} -> 5
          [] s = "CNBC" -> 4
          [] OTHER -> 3]

\* The analyzer built once at import time (lines 151-156): its configuration.
InitAnalyzer == [api_key |-> "ALPHA_VANTAGE_KEY", source_reliability |-> source_reliability]

\* table.get(source, 2), source being item.get('source'): None is no key.
\* Faulty variant: an unknown source scores 0.
ReliabilityDefault_Zero(table, source) ==
    IF ~IsNone(source) /\ Val(source) \in DOMAIN table
    THEN table[Val(source)] ELSE 0
Reliability(table, source) ==
    IF ~IsNone(source) /\ Val(source) \in DOMAIN table
    THEN table[Val(source)] ELSE DefaultReliability

\* --------------------------------------------------------- the feed catalogue
\* Ticker symbols, as the sentiment API and the caller may spell them.
AB == <<"A", "B">>
ab == <<"a", "b">>
CD == <<"C", "D">>

\* Numeric strings of the feed.
N03 == <<"0", ".", "3">>
N05 == <<"0", ".", "5">>
N050 == <<"0", ".", "5", "0">>
N07 == <<"0", ".", "7">>
N09 == <<"0", ".", "9">>
N090 == <<"0", ".", "9", "0">>
NNeg == <<"-", "0", ".", "2", "5">>
NBad == <<"n", "/", "a">>

GoodStamp == <<"2", "0", "2", "4", "0", "1", "1", "5", "0", "9", "3", "0", "0", "0">>
BadStamp == <<"n", "o", "t", "-", "a", "-", "d", "a", "t", "e">>
Text == <<"n", "e", "w", "s">>

\* One entry of an item's ticker_sentiment list.
Tick(sym, rel, score) ==
    [ticker |-> sym, relevance_score |-> rel,
     ticker_sentiment_score |-> score, ticker_sentiment_label |-> "Bullish"]

\* One RawFeedItem.
Item(title, stamp, summary, source, ticks) ==
    [title |-> title, time_published |-> stamp, summary |-> summary,
     source |-> source, url |-> title,
     overall_sentiment_score |-> N03, overall_sentiment_label |-> "Neutral",
     ticker_sentiment |-> ticks]

\* The feed items the model draws from.  Each title is unique, so an output
\* item can be traced to its feed item.
Catalogue ==
    { Item("reuters-hi", GoodStamp, Some(Text), Some("Reuters"),
           <<Tick(AB, Some(N09), Some(N03))>>),
      Item("bloomberg-hi", GoodStamp, Some(Text), Some("Bloomberg"),
           <<Tick(AB, Some(N090), Some(NNeg))>>),
      Item("cnbc-mid", BadStamp, Some(Text), Some("CNBC"),
           <<Tick(CD, Some(N07), Some(N03)), Tick(AB, Some(N050), Some(N03))>>),
      Item("blog-mid", GoodStamp, Some(Text), Some("Some Blog"),
           <<Tick(AB, Some(N05), Some(N03))>>),
      Item("nosource-two", GoodStamp, Some(Text), None,
           <<Tick(AB, Some(N03), Some(N03)), Tick(AB, Some(N09), Some(NNeg))>>),
      Item("zacks-two", GoodStamp, Some(Text), Some("Zacks"),
           <<Tick(AB, Some(N09), Some(N03)), Tick(AB, Some(N03), Some(NNeg))>>),
      Item("benzinga-lower", GoodStamp, Some(Text), Some("Benzinga"),
           <<Tick(ab, Some(N09), Some(N03))>>),
      Item("wsj-none", GoodStamp, Some(Text), Some("Wall Street Journal"),
           <<>>),
      Item("fool-norel", GoodStamp, Some(Text), Some("Motley Fool"),
           <<Tick(AB, None, Some(N03))>>),
      Item("ft-badrel", GoodStamp, Some(Text), Some("Financial Times"),
           <<Tick(AB, Some(NBad), Some(N03))>>) }

\* Items that pass the filter and then fail in the formatter.
Unformattable ==
    { Item("reuters-nosummary", GoodStamp, None, Some("Reuters"),
           <<Tick(AB, Some(N09), Some(N03))>>),
      Item("cnbc-noscore", GoodStamp, Some(Text), Some("CNBC"),
           <<Tick(AB, Some(N05), None)>>) }

\* ------------------------------------------------------ process_news_items
\* Line 49: tick['ticker'] == ticker.upper()
\* Faulty variant: the target is compared as given.
TickerMatches_NoUpper(tick, ticker) == tick.ticker = ticker
TickerMatches(tick, ticker) == tick.ticker = Upper(ticker)

\* Lines 47-51: the first matching entry (break), as Some(entry), or None.
\* Faulty variant: no break, so the last matching entry wins.
FindTicker_Last(ticks, ticker) ==
    LET hits == {i \in DOMAIN ticks : TickerMatches(ticks[i], ticker)}
    IN  IF hits = {} THEN None
        ELSE Some(ticks[CHOOSE i \in hits : \A j \in hits : j <= i])
FindTicker(ticks, ticker) ==
    LET hits == {i \in DOMAIN ticks : TickerMatches(ticks[i], ticker)}
    IN  IF hits = {} THEN None
        ELSE Some(ticks[CHOOSE i \in hits : \A j \in hits : i <= j])

\* Line 52: float(ticker_data.get('relevance_score', 0)); the default 0 is a
\* number, which float() returns as it is.
RelevanceOf(tick) ==
    IF IsNone(tick.relevance_score) THEN Return(0)
    ELSE FloatOfStr(Val(tick.relevance_score))

\* Line 52: ... < min_relevance
\* Faulty variant: the threshold is not applied.
BelowMin_Never(rel, min_relevance) == FALSE
BelowMin(rel, min_relevance) == rel < min_relevance

\* Lines 54-74: the ProcessedNewsItem of a kept item.
ProcessedItem(self, item, tick) ==
    [title |-> item.title,
     published_date |-> FormatDate(item.time_published),
     summary |-> item.summary,
     source |-> item.source,
     source_reliability |-> Reliability(self.source_reliability, item.source),
     url |-> item.url,
     overall_sentiment |-> item.overall_sentiment_score,
     sentiment_label |-> item.overall_sentiment_label,
     relevance_score |-> tick.relevance_score,
     ticker_specific_sentiment |-> tick.ticker_sentiment_score,
     ticker_sentiment_label |-> tick.ticker_sentiment_label]

\* Lines 45-75: the loop over the feed, from item i on, acc being
\* processed_items so far.  A float() that raises ends the call.
RECURSIVE FilterLoop(_, _, _, _, _, _)
FilterLoop(self, feed, i, ticker, min_relevance, acc) ==
    IF i > Len(feed) THEN Return(acc)
    ELSE LET item == feed[i]
             ticker_data == FindTicker(item.ticker_sentiment, ticker)
         IN  IF IsNone(ticker_data)
             THEN FilterLoop(self, feed, i + 1, ticker, min_relevance, acc)
             ELSE LET rel == RelevanceOf(Val(ticker_data))
                  IN  IF ~rel.ok THEN rel
                      ELSE IF BelowMin(rel.v, min_relevance)
                      THEN FilterLoop(self, feed, i + 1, ticker, min_relevance, acc)
                      ELSE FilterLoop(self, feed, i + 1, ticker, min_relevance,
                                      Append(acc, ProcessedItem(self, item, Val(ticker_data))))

\* Line 77: the sort key (float(x['relevance_score']), x['source_reliability']).
SortKey(x) == <<FloatOf(x.relevance_score).v, x.source_reliability>>

\* Tuple comparison a >= b of two sort keys.
\* Faulty variant: the key is the relevance alone.
KeyGE_RelevanceOnly(a, b) == a[1] >= b[1]
KeyGE(a, b) == a[1] > b[1] \/ (a[1] = b[1] /\ a[2] >= b[2])

\* Lines 76-78: sorted(..., reverse=True) is stable: x goes after every item
\* whose key is >= its own, and items come in input order.
InsertSorted(sorted, x) ==
    LET after == {j \in 0..Len(sorted) :
                    \A k \in 1..j : KeyGE(SortKey(sorted[k]), SortKey(x))}
        pos == CHOOSE j \in after : \A k \in after : k <= j
    IN  SubSeq(sorted, 1, pos) \o <<x>> \o SubSeq(sorted, pos + 1, Len(sorted))

RECURSIVE SortedDesc(_)
SortedDesc(items) ==
    IF items = <<>> THEN <<>>
    ELSE InsertSorted(SortedDesc(SubSeq(items, 1, Len(items) - 1)), items[Len(items)])

\* Lines 44-78.  data.get('feed', []): a document without a feed has none.
process_news_items(self, data, ticker, min_relevance) ==
    LET feed == IF IsNone(data.feed) THEN <<>> ELSE Val(data.feed)
        kept == FilterLoop(self, feed, 1, ticker, min_relevance, <<>>)
    IN  IF ~kept.ok THEN kept
        ELSE IF \E k \in DOMAIN kept.v : ~FloatOf(kept.v[k].relevance_score).ok
        THEN Raise("TypeError")
        ELSE Return(SortedDesc(kept.v))

\* ------------------------------------------------------------------- state
VARIABLES
    call,       \* arguments of one process_news_items call: data, ticker, min_relevance
    returned,   \* None before the call; Some(result) after it
    analyzer,   \* the global analyzer (line 152): api_key, source_reliability
    req,        \* per request: the handler's position and local variables
    hist        \* per request: what the upstream services were asked and answered

vars == <<call, returned, analyzer, req, hist>>

Requests == 1..NumRequests

\* A sentiment API document (section 6): definitions and, usually, a feed.
Doc(feed) ==
    [sentiment_score_definition |-> "x <= -0.35: Bearish; ...",
     relevance_score_definition |-> "0 < x <= 1",
     feed |-> feed]

RECURSIVE SeqsUpTo(_, _)
SeqsUpTo(S, n) ==
    IF n = 0 THEN {<<>>}
    ELSE LET shorter == SeqsUpTo(S, n - 1)
         IN  shorter \cup {Append(q, x) : q \in {t \in shorter : Len(t) = n - 1}, x \in S}

Feeds == SeqsUpTo(Catalogue, MaxFeed)
Targets == {AB, ab, CD}
MinRelevances == {0, DefaultMinRelevance, 700}

\* A request's local variables (process_input and the calls below it).
Frame(pc, body, ticker, sentiment_data, response) ==
    [pc |-> pc, body |-> body, ticker |-> ticker,
     sentiment_data |-> sentiment_data, response |-> response]
IdleFrame == Frame("idle", None, None, None, None)
NoHistory ==
    [sentiment_calls |-> 0, lm_calls |-> 0, events |-> <<>>,
     sentiment_reply |-> None, prompt |-> None, lm_reply |-> None]

\* ----------------------------------------- the filter, called on any input
InitFilter ==
    /\ call \in [data : {Doc(Some(f)) : f \in Feeds} \cup {Doc(None)},
                 ticker : Targets, min_relevance : MinRelevances]
    /\ returned = None
    /\ analyzer = InitAnalyzer
    /\ req = [r \in Requests |-> IdleFrame]
    /\ hist = [r \in Requests |-> NoHistory]

CallProcess ==
    /\ returned = None
    /\ returned' = Some(process_news_items(analyzer, call.data, call.ticker,
                                           call.min_relevance))
    /\ UNCHANGED <<call, analyzer, req, hist>>

NextFilter == CallProcess

SpecFilter == InitFilter /\ [][NextFilter]_vars

\* ---------------------------------------------- properties of the filter
\* What the properties below read off a finished call.
Done == ~IsNone(returned) /\ Val(returned).ok
Out == Val(returned).v
Feed == IF IsNone(call.data.feed) THEN <<>> ELSE Val(call.data.feed)
Wanted == Upper(call.ticker)

\* The number of positions of sequence q whose element satisfies P.
Count(q, P(_)) == Cardinality({i \in DOMAIN q : P(q[i])})

\* The entries of item for the symbol sym, exactly as spelled.
EntriesFor(item, sym) ==
    {j \in DOMAIN item.ticker_sentiment : item.ticker_sentiment[j].ticker = sym}
\* The entries of item for the symbol sym, letter case ignored.
EntriesIgnoringCase(item, sym) ==
    {j \in DOMAIN item.ticker_sentiment :
        Upper(item.ticker_sentiment[j].ticker) = Upper(sym)}
First(S) == CHOOSE j \in S : \A k \in S : j <= k

\* The relevance of an entry is a number and is at least min.
AtLeast(entry, min) ==
    /\ ~IsNone(entry.relevance_score)
    /\ FloatOfStr(Val(entry.relevance_score)).ok
    /\ FloatOfStr(Val(entry.relevance_score)).v >= min

\* C1: every returned item comes from a feed item that has an entry for the
\* target ticker, and its relevance, as a number, is at least min_relevance;
\* a feed item with no entry for the target ticker is not in the output.
C1_OnlyRelevantMatches ==
    Done =>
      /\ \A k \in DOMAIN Out :
            /\ \E i \in DOMAIN Feed :
                  /\ Feed[i].title = Out[k].title
                  /\ EntriesFor(Feed[i], Wanted) # {}
            /\ ~IsNone(Out[k].relevance_score)
            /\ FloatOfStr(Val(Out[k].relevance_score)).ok
            /\ FloatOfStr(Val(Out[k].relevance_score)).v >= call.min_relevance
      /\ \A i \in DOMAIN Feed :
            EntriesIgnoringCase(Feed[i], call.ticker) = {} =>
               \A k \in DOMAIN Out : Out[k].title # Feed[i].title

\* C1's case: with the default threshold, one item is returned, one item with
\* no entry for the ticker and one with too low a relevance are dropped.
C1_Witness ==
    /\ Done
    /\ call.min_relevance = DefaultMinRelevance
    /\ Len(Out) = 1
    /\ \E i \in DOMAIN Feed : EntriesIgnoringCase(Feed[i], call.ticker) = {}
    /\ \E i \in DOMAIN Feed :
          /\ EntriesFor(Feed[i], Wanted) # {}
          /\ ~AtLeast(Feed[i].ticker_sentiment[First(EntriesFor(Feed[i], Wanted))],
                      call.min_relevance)

\* The relevance of a returned item, as a number.
Rel(x) == FloatOfStr(Val(x.relevance_score)).v
SameKey(x, y) == Rel(x) = Rel(y) /\ x.source_reliability = y.source_reliability

\* C2: the output is in descending lexicographic order of (relevance as a
\* number, reliability), and returned items with equal keys are in the order
\* their feed items have in the feed.
C2_SortedStable ==
    Done =>
      /\ \A a, b \in DOMAIN Out :
            a < b =>
              \/ Rel(Out[a]) > Rel(Out[b])
              \/ /\ Rel(Out[a]) = Rel(Out[b])
                 /\ Out[a].source_reliability >= Out[b].source_reliability
      /\ \A k \in DOMAIN Out :
            LET tie(x) == SameKey(x, Out[k])
                inOut(item) == \E j \in DOMAIN Out :
                                  Out[j].title = item.title /\ tie(Out[j])
                titleOf(q) == [i \in DOMAIN q |-> q[i].title]
            IN  titleOf(SelectSeq(Out, tie)) = titleOf(SelectSeq(Feed, inOut))

\* C2's case: three items are returned, two of them with equal keys but
\* different relevance strings, and the feed was not already in output order.
C2_Witness ==
    /\ Done
    /\ Len(Out) = 3
    /\ \E a, b \in DOMAIN Out :
          /\ a < b /\ SameKey(Out[a], Out[b])
          /\ Out[a].relevance_score # Out[b].relevance_score
    /\ Out[1].title # Feed[1].title
    /\ \E a, b \in DOMAIN Out :
          Rel(Out[a]) = Rel(Out[b])
          /\ Out[a].source_reliability > Out[b].source_reliability

\* C3 as stated: an entry whose symbol equals the target ignoring case is the
\* matching entry, so the item is kept when that entry's relevance is enough.
C3_CaseInsensitiveMatch ==
    Done =>
      \A i \in DOMAIN Feed :
         LET hits == EntriesIgnoringCase(Feed[i], call.ticker)
         IN  (hits # {} /\ AtLeast(Feed[i].ticker_sentiment[First(hits)],
                                   call.min_relevance))
             => \E k \in DOMAIN Out : Out[k].title = Feed[i].title

\* C3 amended: only the target's letter case is ignored.  An item whose first
\* entry spelled exactly as the upper-cased target has enough relevance is
\* kept, whatever the target's case; an item with no entry spelled exactly so
\* is dropped, even if an entry equals the target ignoring case.
C3_UpperCasedTargetExactSymbol ==
    Done =>
      \A i \in DOMAIN Feed :
         LET hits == EntriesFor(Feed[i], Wanted)
             kept == \E k \in DOMAIN Out : Out[k].title = Feed[i].title
         IN  /\ (hits # {} /\ AtLeast(Feed[i].ticker_sentiment[First(hits)],
                                      call.min_relevance)) => kept
             /\ hits = {} => ~kept

\* C3's case: the target is not upper case; an item whose entry is upper case
\* is kept and an item whose entry is lower case is dropped.
C3_Witness ==
    /\ Done
    /\ call.ticker # Wanted
    /\ \E i \in DOMAIN Feed :
          /\ EntriesFor(Feed[i], Wanted) # {}
          /\ \E k \in DOMAIN Out : Out[k].title = Feed[i].title
    /\ \E i \in DOMAIN Feed :
          /\ EntriesFor(Feed[i], Wanted) = {}
          /\ EntriesIgnoringCase(Feed[i], call.ticker) # {}
          /\ \A k \in DOMAIN Out : Out[k].title # Feed[i].title

\* C7: a returned item's reliability is the table's score for its source when
\* the source is in the table (Reuters: 5) and 2 otherwise, a missing source
\* included; so it is an integer in 1..5.
C7_ReliabilityFromTable ==
    Done =>
      \A k \in DOMAIN Out :
         /\ Out[k].source_reliability =
               IF /\ ~IsNone(Out[k].source)
                  /\ Val(Out[k].source) \in DOMAIN source_reliability
               THEN source_reliability[Val(Out[k].source)] ELSE 2
         /\ Out[k].source = Some("Reuters") => Out[k].source_reliability = 5
         /\ Out[k].source_reliability \in 1..5

\* C7's case: a Reuters item, an item of an unknown source and an item with
\* no source are returned together.
C7_Witness ==
    /\ Done
    /\ \E k \in DOMAIN Out : Out[k].source = Some("Reuters")
    /\ \E k \in DOMAIN Out : Out[k].source = None
    /\ \E k \in DOMAIN Out :
          ~IsNone(Out[k].source) /\ Val(Out[k].source) \notin DOMAIN source_reliability

\* A feed item qualifies when its first entry for the upper-cased target has
\* a relevance of at least min_relevance.
Qualifies(item) ==
    /\ EntriesFor(item, Wanted) # {}
    /\ AtLeast(item.ticker_sentiment[First(EntriesFor(item, Wanted))],
               call.min_relevance)

\* C10: the output is a permutation of the qualifying feed items: each title
\* is returned as often as it qualifies in the feed, the lengths agree, and a
\* returned item carries the relevance and sentiment of its feed item's first
\* entry for the target, later entries for the target notwithstanding.
C10_PermutationOfQualifying ==
    Done =>
      /\ Len(Out) = Count(Feed, Qualifies)
      /\ \A item \in Catalogue :
            LET same(x) == x.title = item.title
                sameQ(x) == x.title = item.title /\ Qualifies(x)
            IN  Count(Out, same) = Count(Feed, sameQ)
      /\ \A k \in DOMAIN Out :
            \E i \in DOMAIN Feed :
               LET first == Feed[i].ticker_sentiment[First(EntriesFor(Feed[i], Wanted))]
               IN  /\ Feed[i].title = Out[k].title
                   /\ Out[k].relevance_score = first.relevance_score
                   /\ Out[k].ticker_specific_sentiment = first.ticker_sentiment_score

\* C10's case: the feed holds the same qualifying item twice and an item with
\* two entries for the target whose first is too low and whose second is not.
C10_Witness ==
    /\ Done
    /\ Len(Out) = 2
    /\ Out[1].title = Out[2].title
    /\ \E i \in DOMAIN Feed :
          LET hits == EntriesFor(Feed[i], Wanted)
          IN  /\ Cardinality(hits) = 2
              /\ ~Qualifies(Feed[i])
              /\ \E j \in hits : AtLeast(Feed[i].ticker_sentiment[j], call.min_relevance)

\* ------------------------------------------------ StockNewsAnalyzer (88-140)
\* Lines 35-42: requests.get(...) and response.json() either raise or give
\* the document; reply is what the sentiment API did.
\* Faulty variant: a failed fetch is swallowed and gives an empty document.
fetch_sentiment_data_Swallow(reply) == IF reply.ok THEN reply ELSE Return(Doc(None))
fetch_sentiment_data(reply) == reply

\* Lines 80-86, after the fetch returned data, with the default min_relevance.
get_sentiment_summary(self, data, ticker) ==
    LET items == process_news_items(self, data, ticker, DefaultMinRelevance)
    IN  IF ~items.ok THEN items
        ELSE Return([sentiment_definition |-> data.sentiment_score_definition,
                     relevance_score_definition |-> data.relevance_score_definition,
                     news_items |-> items.v])

\* f"{x}" of an optional value prints None for an absent one.
Shown(o) == IF IsNone(o) THEN "None" ELSE Val(o)

\* Lines 99-105: the block of one item; subscripting None raises TypeError.
FormatItem(idx, item) ==
    LET rel == FloatOf(item.relevance_score)
        score == FloatOf(item.ticker_specific_sentiment)
    IN  IF ~rel.ok THEN rel
        ELSE IF ~score.ok THEN score
        ELSE IF IsNone(item.summary) THEN Raise("TypeError")
        ELSE Return([idx |-> idx, title |-> item.title,
                     published |-> item.published_date,
                     source |-> Shown(item.source),
                     reliability |-> item.source_reliability,
                     relevance |-> Fmt2(rel.v),
                     label |-> item.ticker_sentiment_label,
                     score |-> Fmt3(score.v),
                     summary |-> Slice(Val(item.summary), SummaryLimit) \o <<"...">>])

\* Lines 96-106: the header followed by one block per item, numbered from 1.
format_news_for_analysis(news_items) ==
    LET blocks == [i \in DOMAIN news_items |-> FormatItem(i, news_items[i])]
        bad == {i \in DOMAIN news_items : ~blocks[i].ok}
    IN  IF bad # {} THEN blocks[CHOOSE i \in bad : \A j \in bad : i <= j]
        ELSE Return(<<"Recent News Items and Sentiment Analysis:">>
                    \o [i \in DOMAIN news_items |-> blocks[i].v])

\* Lines 110-128: the request sent to the language model.
ChatRequest(news_data) ==
    [model |-> "o1-mini", temperature |-> 1, max_completion_tokens |-> 3000,
     messages |-> <<[role |-> "user",
                     content |-> <<"Provide a detailed analysis ...",
                                   "Please analyze these financial news items ...",
                                   news_data,
                                   "Do not just take sentiment ratings at face value ...">>]>>]

\* Lines 108-131: the text returned, reply being what the language model did;
\* any exception becomes an error text (a list of its parts).
\* Faulty variant: no try/except, the exception propagates.
analyze_news_with_ai_NoCatch(reply) == reply
analyze_news_with_ai(reply) ==
    IF reply.ok THEN reply
    ELSE Return(<<"Error generating AI analysis: ", reply.err>>)

\* Line 135: what get_complete_analysis hands to the formatter.
\* Faulty variant: only the top item is formatted.
NewsForPrompt_TopOnly(sentiment_data) == Slice(sentiment_data.news_items, 1)
NewsForPrompt(sentiment_data) == sentiment_data.news_items

\* ----------------------------------------------------- process_input (166-197)
\* What request.get_json() gives: it raises, or returns null or an object.
JsonRaises == [json |-> "raises"]
JsonNull == [json |-> "null"]
JsonObject(empty, input) == [json |-> "object", empty |-> empty, input |-> input]
Str(s) == [type |-> "str", s |-> s]
Num(n) == [type |-> "int", n |-> n]

Bodies ==
    { JsonRaises, JsonNull,
      JsonObject(TRUE, None),                            \* {}
      JsonObject(FALSE, None),                           \* {"ticker": "AB"}
      JsonObject(FALSE, Some(Str(<<>>))),                \* {"input": ""}
      JsonObject(FALSE, Some(Str(<<" ", " ">>))),        \* {"input": "  "}
      JsonObject(FALSE, Some(Str(<<" ", "a", "b", " ">>))),  \* {"input": " ab "}
      JsonObject(FALSE, Some(Num(5))) }                  \* {"input": 5}

\* Line 170: not data or 'input' not in data
NoTicker(body) ==
    \/ body.json = "null"
    \/ body.json = "object" /\ (body.empty \/ IsNone(body.input))

\* Lines 197, 171, 194: jsonify(...) with its status.
Response(status, json) == [status |-> status, json |-> json]
ErrorResponse(status, msg) == Response(status, [error |-> msg])

\* Lines 181-188: the display record of one item.
ShapeItem(item) ==
    LET rel == FloatOf(item.relevance_score)
        score == FloatOf(item.ticker_specific_sentiment)
    IN  IF ~rel.ok THEN rel
        ELSE IF ~score.ok THEN score
        ELSE IF IsNone(item.summary) THEN Raise("TypeError")
        ELSE Return([title |-> item.title,
                     published_date |-> item.published_date,
                     source |-> <<Shown(item.source), item.source_reliability>>,
                     relevance_score |-> Fmt2(rel.v),
                     sentiment |-> <<item.ticker_sentiment_label, Fmt3(score.v)>>,
                     summary |-> Slice(Val(item.summary), SummaryLimit) \o <<"...">>])

\* Lines 175-197: the response built from a finished analysis.
ShapeResponse(analysis) ==
    LET items == analysis.raw_sentiment_data.news_items
        shaped == [i \in DOMAIN items |-> ShapeItem(items[i])]
        bad == {i \in DOMAIN items : ~shaped[i].ok}
    IN  IF bad # {}
        THEN ErrorResponse(500, shaped[CHOOSE i \in bad : \A j \in bad : i <= j].err)
        ELSE Response(200, [disclaimer |-> "IMPORTANT: This analysis is for informational purposes only ...",
                            news_items |-> [i \in DOMAIN items |-> shaped[i].v],
                            ai_analysis |-> analysis.ai_analysis])

\* The replies of the two upstream services.  The sentiment API's are
\* sent by name, so that a request's history holds the name of its reply.
SentimentService ==
    LET it(t) == CHOOSE x \in Catalogue \cup Unformattable : x.title = t
    IN  [n \in {"unreachable", "no-feed", "mixed", "unformattable", "bad-relevance"} |->
           CASE n = "unreachable" -> Raise("ConnectionError")
             [] n = "no-feed" -> Return(Doc(None))
             [] n = "mixed" ->
                  Return(Doc(Some(<<it("zacks-two"), it("cnbc-mid"), it("benzinga-lower"),
                                    it("reuters-hi"), it("nosource-two")>>)))
             [] n = "unformattable" ->
                  Return(Doc(Some(<<it("blog-mid"), it("cnbc-noscore"),
                                    it("reuters-nosummary")>>)))
             [] OTHER -> Return(Doc(Some(<<it("reuters-hi"), it("ft-badrel")>>)))]
SentimentReplies == DOMAIN SentimentService
ModelReplies == {Raise("APIError"), Return(<<"Short term 60, fundamentals 70.">>)}

\* Faulty variant: sentiment_data is kept on the shared analyzer, so binding it
\* for one request rebinds it for every request being handled.
Bind_Shared(frames, r, frame) ==
    [q \in DOMAIN frames |->
        IF q = r THEN frame
        ELSE IF frames[q].pc = "idle" \/ IsNone(frame.sentiment_data) THEN frames[q]
        ELSE [frames[q] EXCEPT !.sentiment_data = frame.sentiment_data]]
\* Each handler invocation has its own locals: binding them touches request r only.
Bind(frames, r, frame) == [frames EXCEPT ![r] = frame]

\* The frame of a handler that has returned response.
Finished(frame, response) ==
    [frame EXCEPT !.pc = "done", !.response = Some(response)]

\* ------------------------------------------------------------- the handler
Init ==
    /\ call = [data |-> Doc(None), ticker |-> <<>>, min_relevance |-> DefaultMinRelevance]
    /\ returned = None
    /\ analyzer = InitAnalyzer
    /\ req = [r \in Requests |-> IdleFrame]
    /\ hist = [r \in Requests |-> NoHistory]

\* Lines 168-174 and 134, 81, 36-41: the handler reads the body, rejects a
\* request without ticker, normalises the ticker and sends the sentiment query.
Receive(r, body) ==
    /\ req[r].pc = "idle"
    /\ LET frame == [req[r] EXCEPT !.body = Some(body)]
       IN  IF body.json = "raises"
           THEN /\ req' = Bind(req, r, Finished(frame, ErrorResponse(500, "BadRequest")))
                /\ hist' = hist
           ELSE IF NoTicker(body)
           THEN /\ req' = Bind(req, r, Finished(frame, ErrorResponse(400, "No ticker provided")))
                /\ hist' = hist
           ELSE IF Val(body.input).type # "str"
           THEN /\ req' = Bind(req, r, Finished(frame, ErrorResponse(500, "AttributeError")))
                /\ hist' = hist
           ELSE /\ req' = Bind(req, r, [frame EXCEPT !.pc = "fetch",
                                          !.ticker = Some(Upper(Strip(Val(body.input).s)))])
                /\ hist' = [hist EXCEPT ![r].sentiment_calls = @ + 1,
                                        ![r].events = @ \o <<"sentiment_call">>]
    /\ UNCHANGED <<call, returned, analyzer>>

\* Lines 41-42 and 82-86, 135-136, 110-128: the sentiment API answers or
\* the call raises; on an answer the handler filters and ranks, formats, and
\* sends the prompt to the language model.
SentimentReply(r, reply) ==
    /\ req[r].pc = "fetch"
    /\ LET data == fetch_sentiment_data(SentimentService[reply])
           sd == get_sentiment_summary(analyzer, data.v, Val(req[r].ticker))
           fn == format_news_for_analysis(NewsForPrompt(sd.v))
           got == [hist EXCEPT ![r].sentiment_reply = Some(reply)]
       IN  IF ~data.ok
           THEN /\ req' = Bind(req, r, Finished(req[r], ErrorResponse(500, data.err)))
                /\ hist' = got
           ELSE IF ~sd.ok
           THEN /\ req' = Bind(req, r, Finished(req[r], ErrorResponse(500, sd.err)))
                /\ hist' = [got EXCEPT ![r].events = @ \o <<"sentiment_return">>]
           ELSE IF ~fn.ok
           THEN /\ req' = Bind(req, r, Finished([req[r] EXCEPT !.sentiment_data = Some(sd.v)],
                                                ErrorResponse(500, fn.err)))
                /\ hist' = [got EXCEPT ![r].events =
                                          @ \o <<"sentiment_return", "filter_rank">>]
           ELSE /\ req' = Bind(req, r, [req[r] EXCEPT !.pc = "llm",
                                                     !.sentiment_data = Some(sd.v)])
                /\ hist' = [got EXCEPT ![r].lm_calls = @ + 1,
                                       ![r].prompt = Some(ChatRequest(fn.v)),
                                       ![r].events = @ \o <<"sentiment_return", "filter_rank",
                                                            "format", "lm_call">>]
    /\ UNCHANGED <<call, returned, analyzer>>

\* Lines 129-131, 137-140, 175-197: the language model answers or the call
\* raises; the analysis is assembled and the response shaped and sent.
ModelReply(r, reply) ==
    /\ req[r].pc = "llm"
    /\ LET ai == analyze_news_with_ai(reply)
           analysis == [raw_sentiment_data |-> Val(req[r].sentiment_data),
                        ai_analysis |-> ai.v]
       IN  IF ~ai.ok
           THEN /\ req' = Bind(req, r, Finished(req[r], ErrorResponse(500, ai.err)))
                /\ hist' = [hist EXCEPT ![r].lm_reply = Some(reply)]
           ELSE /\ req' = Bind(req, r, Finished(req[r], ShapeResponse(analysis)))
                /\ hist' = [hist EXCEPT ![r].lm_reply = Some(reply),
                                        ![r].events = @ \o <<"lm_return", "assemble">>]
    /\ UNCHANGED <<call, returned, analyzer>>

Next ==
    \E r \in Requests :
       \/ \E body \in Bodies : Receive(r, body)
       \/ \E reply \in SentimentReplies : SentimentReply(r, reply)
       \/ \E reply \in ModelReplies : ModelReply(r, reply)

Spec == Init /\ [][Next]_vars


\* -------------------------------------------- a request handled on its own
\* Lines 133-140 and 166-197 run start to end with nothing in between:
\* the response to body when the sentiment API does sreply and the language
\* model does lreply (each None when the handler never gets to ask).
process_input(self, body, sreply, lreply) ==
    IF body.json = "raises" THEN ErrorResponse(500, "BadRequest")
    ELSE IF NoTicker(body) THEN ErrorResponse(400, "No ticker provided")
    ELSE IF Val(body.input).type # "str" THEN ErrorResponse(500, "AttributeError")
    ELSE LET ticker == Upper(Strip(Val(body.input).s))
             data == fetch_sentiment_data(Val(sreply))
             sd == get_sentiment_summary(self, data.v, ticker)
             fn == format_news_for_analysis(NewsForPrompt(sd.v))
             ai == analyze_news_with_ai(Val(lreply))
         IN  IF ~data.ok THEN ErrorResponse(500, data.err)
             ELSE IF ~sd.ok THEN ErrorResponse(500, sd.err)
             ELSE IF ~fn.ok THEN ErrorResponse(500, fn.err)
             ELSE IF ~ai.ok THEN ErrorResponse(500, ai.err)
             ELSE ShapeResponse([raw_sentiment_data |-> sd.v, ai_analysis |-> ai.v])

\* --------------------------------------------- properties of the handler
Answered(r) == req[r].pc = "done"
Answer(r) == Val(req[r].response)
Body(r) == Val(req[r].body)
\* The request carries a string as its input.
HasTicker(r) ==
    /\ req[r].pc # "idle"
    /\ Body(r).json = "object" /\ ~NoTicker(Body(r))
    /\ Val(Body(r).input).type = "str"
TickerOf(r) == Upper(Strip(Val(Body(r).input).s))
\* What the sentiment API and the language model answered request r.
Fetched(r) == SentimentService[Val(hist[r].sentiment_reply)]
Generated(r) == Val(hist[r].lm_reply)
\* The ranked list of request r, from the sentiment document it was sent.
Ranked(r) == process_news_items(InitAnalyzer, Fetched(r).v, TickerOf(r), DefaultMinRelevance)
TitlesOf(q) == [i \in DOMAIN q |-> q[i].title]

\* C4: when the sentiment fetch of a request with a ticker succeeded and the
\* language-model call failed, the response is a 200 whose ai_analysis is the
\* error text and whose news_items are the ranked items of the document, as
\* they would be after a successful language-model call.
C4_ModelFailureStill200 ==
    \A r \in Requests :
       (Answered(r) /\ ~IsNone(hist[r].lm_reply) /\ ~Generated(r).ok) =>
          /\ Answer(r).status = 200
          /\ Answer(r).json.ai_analysis =
                <<"Error generating AI analysis: ", Generated(r).err>>
          /\ TitlesOf(Answer(r).json.news_items) = TitlesOf(Ranked(r).v)
          /\ Answer(r).json.news_items =
                process_input(InitAnalyzer, Body(r), Some(Fetched(r)),
                              Some(Return(<<"text">>))).json.news_items

\* C4's case: the language-model call of a request with several news items
\* failed and the request is answered.
C4_Witness ==
    \E r \in Requests :
       /\ Answered(r)
       /\ ~IsNone(hist[r].lm_reply) /\ ~Generated(r).ok
       /\ Len(Answer(r).json.news_items) >= 2

\* The body has no ticker: none at all, or an empty or blank input.
MissingOrEmpty(body) ==
    \/ NoTicker(body)
    \/ /\ body.json = "object" /\ ~IsNone(body.input)
       /\ Val(body.input).type = "str"
       /\ Strip(Val(body.input).s) = <<>>

\* C5: a request whose ticker is missing or empty is answered 400 with an
\* error payload, and neither upstream service is called for it.
C5_MissingOrEmptyIs400 ==
    \A r \in Requests :
       (req[r].pc # "idle" /\ MissingOrEmpty(Body(r))) =>
          /\ Answered(r)
          /\ Answer(r).status = 400
          /\ DOMAIN Answer(r).json = {"error"}
          /\ hist[r].sentiment_calls = 0
          /\ hist[r].lm_calls = 0

\* C6: a request that passed the input check and failed anywhere but in the
\* language-model call is answered 500 with {"error": description}: when the
\* input is no string, when the sentiment fetch raises (and then the language
\* model is never called), when the filter raises, when the formatter raises.
C6_OtherFailuresAre500 ==
    \A r \in Requests :
       Answered(r) =>
          LET ranked == Ranked(r)
              formatted == format_news_for_analysis(ranked.v)
          IN  /\ (~NoTicker(Body(r)) /\ Body(r).json = "object"
                    /\ Val(Body(r).input).type # "str")
                    => Answer(r) = ErrorResponse(500, "AttributeError")
              /\ (HasTicker(r) /\ ~Fetched(r).ok)
                    => /\ Answer(r) = ErrorResponse(500, Fetched(r).err)
                       /\ hist[r].lm_calls = 0
              /\ (HasTicker(r) /\ Fetched(r).ok /\ ~ranked.ok)
                    => /\ Answer(r) = ErrorResponse(500, ranked.err)
                       /\ hist[r].lm_calls = 0
              /\ (HasTicker(r) /\ Fetched(r).ok /\ ranked.ok /\ ~formatted.ok)
                    => /\ Answer(r) = ErrorResponse(500, formatted.err)
                       /\ hist[r].lm_calls = 0

\* C6's case: one request is answered after its sentiment fetch raised and
\* another after the formatter raised.
C6_Witness ==
    \E r, q \in Requests :
       /\ Answered(r) /\ HasTicker(r) /\ ~Fetched(r).ok
       /\ Answered(q) /\ HasTicker(q) /\ Fetched(q).ok /\ Ranked(q).ok
       /\ ~format_news_for_analysis(Ranked(q).v).ok
       /\ Answer(q).status = 500

StepOrder ==
    <<"sentiment_call", "sentiment_return", "filter_rank", "format",
      "lm_call", "lm_return", "assemble">>
IsPrefix(p, q) == Len(p) <= Len(q) /\ p = SubSeq(q, 1, Len(p))

\* C8: the steps of a request happen in the order sentiment call, sentiment
\* return, filter/rank, format, language-model call, its return, assembly;
\* the sentiment API is called once per analysis and the language model at
\* most once; the prompt holds the blocks of exactly the items, in order,
\* that the response returns as news_items.
C8_StepsInOrder ==
    \A r \in Requests :
       /\ IsPrefix(hist[r].events, StepOrder)
       /\ hist[r].sentiment_calls = (IF hist[r].events = <<>> THEN 0 ELSE 1)
       /\ hist[r].lm_calls = (IF Len(hist[r].events) >= 5 THEN 1 ELSE 0)
       /\ (Answered(r) /\ Answer(r).status = 200) =>
             LET blocks == Tail(Val(hist[r].prompt).messages[1].content[3])
                 items == Answer(r).json.news_items
             IN  /\ hist[r].events = StepOrder
                 /\ TitlesOf(blocks) = TitlesOf(items)
                 /\ \A i \in DOMAIN blocks :
                       /\ blocks[i].idx = i
                       /\ blocks[i].relevance = items[i].relevance_score
                       /\ blocks[i].summary = items[i].summary

\* C8's case: a request with three ranked items went through every step.
C8_Witness ==
    \E r \in Requests :
       /\ Answered(r) /\ Answer(r).status = 200
       /\ Len(Answer(r).json.news_items) = 3
       /\ hist[r].events = StepOrder

\* C9: handling requests leaves the analyzer's configuration as it was built,
\* and every answered request got the response it would get handled alone
\* with the same body and the same upstream replies.
C9_RequestsIndependent ==
    /\ analyzer = InitAnalyzer
    /\ \A r \in Requests :
          Answered(r) =>
             Answer(r) = process_input(InitAnalyzer, Body(r),
                                       IF IsNone(hist[r].sentiment_reply) THEN None
                                       ELSE Some(Fetched(r)),
                                       hist[r].lm_reply)

\* C9's case: two requests with different ranked lists; one is answered
\* while the other, with several items, waits for the language model.
C9_Witness ==
    \E r, q \in Requests :
       /\ req[r].pc = "llm" /\ Answered(q) /\ Answer(q).status = 200
       /\ Len(Val(req[r].sentiment_data).news_items) >= 2
       /\ TitlesOf(Val(req[r].sentiment_data).news_items) # TitlesOf(Answer(q).json.news_items)

====
